---- MODULE Spec2Model ----
(***************************************************************************)
(* Model of kazoo's ZooLock recipe (src/kazoo/recipe/lock.py) running on   *)
(* top of ZooKeeperClient (src/kazoo/zkclient.py).                         *)
(*                                                                         *)
(* NumHandles independent ZooLock handles, each with its own client, share *)
(* one lock path; one more handle on the same path only lists the          *)
(* contenders.  Every client call (create, delete, get_children, get,      *)
(* exists) is one atomic step against the server state; the local          *)
(* statements that follow a call up to the next call belong to the same    *)
(* step, except where a claim speaks of the gap (acquire's assignment of   *)
(* is_acquired, release's clearing of is_acquired, the condition's mutex). *)
(***************************************************************************)
EXTENDS Integers, Sequences, FiniteSets, TLC

\* ------------------------------------------------------------------ bounds
\* NumHandles contending handles; at most MaxEvents acquire() calls and
\* injected failures together, at most MaxFaults of them failures.
NumHandles == 2
MaxEvents == 4
MaxFaults == 2

Handles == 1..NumHandles

\* ------------------------------------------------------------------- names
\* A child name is  uuid4().hex + '_lock_' + <sequence suffix> ; the model
\* keeps the two variable parts.
Name(u, s) == [uuid |-> u, seq |-> s]

\* Python's None (self.node after release, "no match" of _find_node).
None == Name(0, 0)

\* uuid.uuid4().hex of handle h: distinct per handle, and ordered the other
\* way round than the handles are numbered.
Uuid(h) == NumHandles + 1 - h

\* self.data = str(contender_name or ""): the value written into the node.
Data(h) == h

\* The value stored in node c: lock.py writes it at creation and never
\* changes it, so it is the data of the handle whose prefix the name carries.
NodeData(c) == Data(NumHandles + 1 - c.uuid)

VARIABLES
    pc,           \* per handle: where its current call stands
    create_tried, \* self.create_tried
    is_acquired,  \* self.is_acquired
    node,         \* self.node
    pred,         \* _inner_acquire's local predecessor
    cnode,        \* _best_effort_cleanup's local node
    znodes,       \* server: names of the children of self.path
    nextSeq,      \* server: next sequence suffix of self.path
    watches,      \* server: <<handle, name>> one-shot exists watches
    outcome,      \* per handle: how its last finished acquire/release ended
    raised,       \* per handle: the exception that call raised
    calls,        \* number of acquire() calls made so far
    faults,       \* number of injected failures so far
    lost,         \* per handle: node created whose reply was lost, this acquire()
    vanished,     \* per handle: node found missing from the children, this acquire()
    flag,         \* per handle: a circumstance of the last finished call
    gcpc,         \* listing handle: where its get_contenders() stands
    gcListed,     \* get_contenders: the sorted children it listed
    gcIdx,        \* get_contenders: how many of them it has fetched
    gcOut,        \* get_contenders: contenders collected so far
    gcMissed,     \* get_contenders: children that had vanished when fetched
    scope         \* per handle: where its with statement on the lock stands

lockVars == <<create_tried, is_acquired, node, pred, cnode>>
serverVars == <<znodes, nextSeq, watches>>
resVars == <<outcome, raised, flag>>
histVars == <<lost, vanished>>
budgetVars == <<calls, faults>>
gcVars == <<gcpc, gcListed, gcIdx, gcOut, gcMissed>>
userVars == <<gcVars, scope>>

vars == <<pc, lockVars, serverVars, resVars, histVars, budgetVars, userVars>>

\* ----------------------------------------------------------- pure helpers
\* child.startswith(self.prefix)
StartsWithPrefix(c, h) == c.uuid = Uuid(h)

\* The children of path that carry handle h's prefix.
HNodes(h) == {c \in znodes : StartsWithPrefix(c, h)}

\* key=lambda c: c[c.find(lockname) + len(lockname):]  -- the part of the
\* name after '_lock_', the zero-padded sequence suffix.  PlainKey is the
\* whole name (uuid first), what children.sort() without a key compares.
PlainKey(c) == c.uuid * 1000 + c.seq
SortKey(c) == c.seq

RECURSIVE SortedBy(_)
SortedBy(S) ==
    IF S = {} THEN <<>>
    ELSE LET m == CHOOSE x \in S : \A y \in S : SortKey(x) <= SortKey(y)
         IN  <<m>> \o SortedBy(S \ {m})

\* _get_sorted_children: list the children, sort them by SortKey.
get_sorted_children == SortedBy(znodes)

\* children.index(node), 0-based; -1 stands for ValueError.
Index(children, n) ==
    IF \E i \in 1..Len(children) : children[i] = n
    THEN (CHOOSE i \in 1..Len(children) : children[i] = n) - 1
    ELSE -1

\* _find_node comparing the whole name with the prefix: nothing ever matches.
find_node_whole_name(h) == {None}

\* _find_node: the children that the loop may return (the first one with the
\* prefix in the server's listing order, which is arbitrary), or None.
find_node(h) == IF HNodes(h) = {} THEN {None} ELSE HNodes(h)

\* The index test with the bound off by one.
HasLockLoose(our_index) == our_index <= 1

\* if our_index == 0: return True
HasLock(our_index) == our_index = 0

\* client.retry: re-invoke on the force-retry signal or a transient failure,
\* propagate anything else.
RetryDisposition(err) ==
    IF err \in {"ForceRetryError", "ConnectionLossException"} THEN "retry" ELSE "raise"

\* ---------------------------------------------------------------- Init
Init ==
    /\ pc = [h \in Handles |-> "idle"]
    /\ create_tried = [h \in Handles |-> FALSE]
    /\ is_acquired = [h \in Handles |-> FALSE]
    /\ node = [h \in Handles |-> None]
    /\ pred = [h \in Handles |-> None]
    /\ cnode = [h \in Handles |-> None]
    /\ znodes = {}
    /\ nextSeq = 0
    /\ watches = {}
    /\ outcome = [h \in Handles |-> "none"]
    /\ raised = [h \in Handles |-> "none"]
    /\ flag = [h \in Handles |-> "none"]
    /\ calls = 0
    /\ faults = 0
    /\ lost = [h \in Handles |-> None]
    /\ vanished = [h \in Handles |-> None]
    /\ gcpc = "idle"
    /\ gcListed = <<>>
    /\ gcIdx = 0
    /\ gcOut = <<>>
    /\ gcMissed = {}
    /\ scope = [h \in Handles |-> "none"]

\* A call of handle h ends with result r, exception e when it raises, and
\* circumstance f.
Finish(h, r, e, f) ==
    /\ pc' = [pc EXCEPT ![h] = "idle"]
    /\ outcome' = [outcome EXCEPT ![h] = r]
    /\ raised' = [raised EXCEPT ![h] = e]
    /\ flag' = [flag EXCEPT ![h] = f]

\* ------------------------------------------------------------- acquire
\* acquire(): enter the try block; client.retry invokes _inner_acquire.  What
\* the handle's previous call returned is forgotten here.
CallAcquire(h) ==
    /\ pc[h] = "idle"
    /\ calls + faults < MaxEvents
    /\ calls' = calls + 1
    /\ pc' = [pc EXCEPT ![h] = "start"]
    /\ outcome' = [outcome EXCEPT ![h] = "none"]
    /\ raised' = [raised EXCEPT ![h] = "none"]
    /\ flag' = [flag EXCEPT ![h] = "none"]
    /\ UNCHANGED <<lockVars, serverVars, histVars, faults, gcVars>>

\* lock.acquire() called directly.
acquire(h) == CallAcquire(h) /\ UNCHANGED scope

\* __enter__, lines 145-146: "with lock:" calls self.acquire(); the protected
\* section runs once acquire() has returned.
enter(h) ==
    /\ scope[h] # "entered"
    /\ CallAcquire(h)
    /\ scope' = [scope EXCEPT ![h] = "entered"]

\* client.create(self.create_path, self.data, ephemeral=True, sequence=True)
\* followed by  self.node = node[len(self.path)+1:].
CreateNode(h) ==
    /\ znodes' = znodes \cup {Name(Uuid(h), nextSeq)}
    /\ nextSeq' = nextSeq + 1
    /\ node' = [node EXCEPT ![h] = Name(Uuid(h), nextSeq)]

\* The start of _inner_acquire without the create_tried check: every attempt
\* creates.
inner_acquire_begin_always_creates(h) ==
    /\ pc[h] = "start"
    /\ create_tried' = [create_tried EXCEPT ![h] = TRUE]
    /\ CreateNode(h)
    /\ pc' = [pc EXCEPT ![h] = "list"]
    /\ UNCHANGED <<is_acquired, pred, cnode, watches, resVars, histVars,
                   budgetVars, userVars>>

\* The start of _inner_acquire without the fall back to create: it goes on with
\* whatever _find_node returned.
inner_acquire_begin_no_fallback(h) ==
    /\ pc[h] = "start"
    /\ IF create_tried[h]
       THEN \E n \in find_node(h) :
               /\ node' = [node EXCEPT ![h] = n]
               /\ pc' = [pc EXCEPT ![h] = "list"]
               /\ UNCHANGED <<create_tried, znodes, nextSeq>>
       ELSE /\ create_tried' = [create_tried EXCEPT ![h] = TRUE]
            /\ CreateNode(h)
            /\ pc' = [pc EXCEPT ![h] = "list"]
    /\ UNCHANGED <<is_acquired, pred, cnode, watches, resVars, histVars,
                   budgetVars, userVars>>

\* _inner_acquire, lines 50-62 when the first call it makes is answered:
\* with create_tried set, _find_node and either adopt the match or go on to
\* create; otherwise set create_tried and create.
inner_acquire_begin(h) ==
    /\ pc[h] = "start"
    /\ IF create_tried[h]
       THEN \E n \in find_node(h) :
               /\ IF n = None
                  THEN /\ pc' = [pc EXCEPT ![h] = "create"]
                       /\ UNCHANGED node
                  ELSE /\ pc' = [pc EXCEPT ![h] = "list"]
                       /\ node' = [node EXCEPT ![h] = n]
               /\ UNCHANGED <<create_tried, znodes, nextSeq>>
       ELSE /\ create_tried' = [create_tried EXCEPT ![h] = TRUE]
            /\ CreateNode(h)
            /\ pc' = [pc EXCEPT ![h] = "list"]
    /\ UNCHANGED <<is_acquired, pred, cnode, watches, resVars, histVars,
                   budgetVars, userVars>>

\* _inner_acquire, lines 56-62 after _find_node found nothing: create.
inner_acquire_create(h) ==
    /\ pc[h] = "create"
    /\ CreateNode(h)
    /\ pc' = [pc EXCEPT ![h] = "list"]
    /\ UNCHANGED <<create_tried, is_acquired, pred, cnode, watches, resVars,
                   histVars, budgetVars, userVars>>

\* An exception err leaves _inner_acquire: client.retry either runs it again
\* or lets acquire()'s except clause start the cleanup.  The local
\* predecessor dies with the attempt.
AcquireFails(h, err) ==
    /\ pc' = [pc EXCEPT ![h] =
          IF RetryDisposition(err) = "retry" THEN "start" ELSE "cleanup"]
    /\ raised' = [raised EXCEPT ![h] =
          IF RetryDisposition(err) = "retry" THEN raised[h] ELSE err]
    /\ pred' = [pred EXCEPT ![h] = None]
    /\ UNCHANGED <<outcome, flag>>

\* _inner_acquire, lines 65-81: list and sort the children, find our index;
\* missing -> ForceRetryError, index 0 -> return True, otherwise remember the
\* predecessor.
inner_acquire_check(h) ==
    /\ pc[h] = "list"
    /\ LET children == get_sorted_children
           our_index == Index(children, node[h])
       IN  IF our_index < 0
           THEN /\ AcquireFails(h, "ForceRetryError")
                /\ vanished' = [vanished EXCEPT ![h] = node[h]]
           ELSE IF HasLock(our_index)
           THEN /\ pc' = [pc EXCEPT ![h] = "got"]
                /\ UNCHANGED <<pred, vanished, resVars>>
           ELSE /\ pred' = [pred EXCEPT ![h] = children[our_index]]
                /\ pc' = [pc EXCEPT ![h] = "exists"]
                /\ UNCHANGED <<vanished, resVars>>
    /\ UNCHANGED <<create_tried, is_acquired, node, cnode, serverVars, lost,
                   budgetVars, userVars>>

\* The exists() step ignoring what exists() returned: always wait.
inner_acquire_exists_always_waits(h) ==
    /\ pc[h] = "exists"
    /\ watches' = watches \cup {<<h, pred[h]>>}
    /\ pc' = [pc EXCEPT ![h] = "locked"]
    /\ UNCHANGED <<lockVars, znodes, nextSeq, resVars, histVars, budgetVars, userVars>>

\* _inner_acquire, lines 82-84: take the condition's mutex and call
\* client.exists(predecessor, self._watch_predecessor).  A truthy stat leaves
\* the watch set and the handle about to wait, still holding the mutex; None
\* leaves the with block and loops (the local predecessor is dead then).
inner_acquire_exists(h) ==
    /\ pc[h] = "exists"
    /\ IF pred[h] \in znodes
       THEN /\ watches' = watches \cup {<<h, pred[h]>>}
            /\ pc' = [pc EXCEPT ![h] = "locked"]
            /\ UNCHANGED pred
       ELSE /\ pc' = [pc EXCEPT ![h] = "list"]
            /\ pred' = [pred EXCEPT ![h] = None]
            /\ UNCHANGED watches
    /\ UNCHANGED <<create_tried, is_acquired, node, cnode, znodes, nextSeq,
                   resVars, histVars, budgetVars, userVars>>

\* self.condition.wait(): release the mutex and block.
condition_wait(h) ==
    /\ pc[h] = "locked"
    /\ pc' = [pc EXCEPT ![h] = "wait"]
    /\ UNCHANGED <<lockVars, serverVars, resVars, histVars, budgetVars, userVars>>

\* A waiter that takes the wakeup for the lock: it returns without listing
\* again.
watch_predecessor_grants(h, n) ==
    /\ <<h, n>> \in watches
    /\ n \notin znodes
    /\ pc[h] # "locked"
    /\ watches' = watches \ {<<h, n>>}
    /\ pc' = [pc EXCEPT ![h] = IF pc[h] = "wait" THEN "got" ELSE pc[h]]
    /\ pred' = [pred EXCEPT ![h] = IF pc[h] = "wait" THEN None ELSE pred[h]]
    /\ UNCHANGED <<create_tried, is_acquired, node, cnode, znodes, nextSeq,
                   resVars, histVars, budgetVars, userVars>>

\* The callback without the condition's mutex: it can run, and notify nobody,
\* between the waiter's exists() and its wait().
watch_predecessor_no_mutex(h, n) ==
    /\ <<h, n>> \in watches
    /\ n \notin znodes
    /\ watches' = watches \ {<<h, n>>}
    /\ pc' = [pc EXCEPT ![h] = IF pc[h] = "wait" THEN "list" ELSE pc[h]]
    /\ pred' = [pred EXCEPT ![h] = IF pc[h] = "wait" THEN None ELSE pred[h]]
    /\ UNCHANGED <<create_tried, is_acquired, node, cnode, znodes, nextSeq,
                   resVars, histVars, budgetVars, userVars>>

\* The callback without its notify_all: the watch is consumed, nobody wakes.
watch_predecessor_silent(h, n) ==
    /\ <<h, n>> \in watches
    /\ n \notin znodes
    /\ pc[h] # "locked"
    /\ watches' = watches \ {<<h, n>>}
    /\ UNCHANGED <<pc, lockVars, znodes, nextSeq, resVars, histVars, budgetVars, userVars>>

\* _watch_predecessor, run on the notification context once the watched node
\* is deleted: take the condition's mutex, notify_all.  A waiter goes back to
\* listing (its local predecessor is dead from there on); with nobody waiting
\* the notification is lost.
watch_predecessor(h, n) ==
    /\ <<h, n>> \in watches
    /\ n \notin znodes
    /\ pc[h] # "locked"
    /\ watches' = watches \ {<<h, n>>}
    /\ pc' = [pc EXCEPT ![h] = IF pc[h] = "wait" THEN "list" ELSE pc[h]]
    /\ pred' = [pred EXCEPT ![h] = IF pc[h] = "wait" THEN None ELSE pred[h]]
    /\ UNCHANGED <<create_tried, is_acquired, node, cnode, znodes, nextSeq,
                   resVars, histVars, budgetVars, userVars>>

\* acquire() returning without the assignment.
acquire_return_unset(h) ==
    /\ pc[h] = "got"
    /\ Finish(h, "acquired", "none", "none")
    /\ lost' = [lost EXCEPT ![h] = None]
    /\ vanished' = [vanished EXCEPT ![h] = None]
    /\ UNCHANGED <<lockVars, serverVars, budgetVars, userVars>>

\* acquire(), line 42, after client.retry returned: self.is_acquired = True.
acquire_return(h) ==
    /\ pc[h] = "got"
    /\ is_acquired' = [is_acquired EXCEPT ![h] = TRUE]
    /\ Finish(h, "acquired", "none", "none")
    /\ lost' = [lost EXCEPT ![h] = None]
    /\ vanished' = [vanished EXCEPT ![h] = None]
    /\ UNCHANGED <<create_tried, node, pred, cnode, serverVars, budgetVars, userVars>>

\* ------------------------------------------------- failed acquire: cleanup
\* acquire() raises the failure it caught once the cleanup is over.
AcquireRaises(h, f) ==
    /\ Finish(h, "acquire_raised", raised[h], f)
    /\ lost' = [lost EXCEPT ![h] = None]
    /\ vanished' = [vanished EXCEPT ![h] = None]

\* _best_effort_cleanup, line 108: node = self._find_node(); nothing found
\* ends the cleanup.
best_effort_cleanup(h) ==
    /\ pc[h] = "cleanup"
    /\ \E n \in find_node(h) :
          IF n = None
          THEN /\ AcquireRaises(h, "cleaned")
               /\ UNCHANGED cnode
          ELSE /\ cnode' = [cnode EXCEPT ![h] = n]
               /\ pc' = [pc EXCEPT ![h] = "cleanup_delete"]
               /\ UNCHANGED <<resVars, histVars>>
    /\ UNCHANGED <<create_tried, is_acquired, node, pred, serverVars, budgetVars,
                   userVars>>

\* The cleanup returning without its delete.
best_effort_cleanup_skips_delete(h) ==
    /\ pc[h] = "cleanup_delete"
    /\ cnode' = [cnode EXCEPT ![h] = None]
    /\ AcquireRaises(h, "cleaned")
    /\ UNCHANGED <<create_tried, is_acquired, node, pred, serverVars,
                   budgetVars, userVars>>

\* _best_effort_cleanup, lines 109-113: client.delete of the node found; a
\* NoNodeException (the node went away meanwhile) is swallowed like any other
\* exception.
best_effort_cleanup_delete(h) ==
    /\ pc[h] = "cleanup_delete"
    /\ znodes' = znodes \ {cnode[h]}
    /\ cnode' = [cnode EXCEPT ![h] = None]
    /\ AcquireRaises(h, IF cnode[h] \in znodes THEN "cleaned" ELSE "none")
    /\ UNCHANGED <<create_tried, is_acquired, node, pred, nextSeq, watches,
                   budgetVars, userVars>>

\* ------------------------------------------------------------- release
\* release() without the is_acquired test: the delete of path + "/" + None
\* of a handle that holds nothing raises.
release_without_test(h) ==
    /\ pc[h] = "idle"
    /\ IF is_acquired[h]
       THEN /\ pc' = [pc EXCEPT ![h] = "release"]
            /\ UNCHANGED resVars
       ELSE Finish(h, "release_raised", "TypeError", "none")
    /\ UNCHANGED <<lockVars, serverVars, histVars, budgetVars, userVars>>

\* release(): client.retry invokes _inner_release, which returns False at
\* once, without a client call, when the handle is not acquired ("second"
\* marks a False that follows a release() that returned True).
CallRelease(h) ==
    /\ pc[h] = "idle"
    /\ IF is_acquired[h]
       THEN /\ pc' = [pc EXCEPT ![h] = "release"]
            /\ UNCHANGED resVars
       ELSE Finish(h, "False", "none",
                   IF outcome[h] = "True" THEN "second" ELSE "none")
    /\ UNCHANGED <<lockVars, serverVars, histVars, budgetVars, gcVars>>

\* lock.release() called directly.
release(h) == CallRelease(h) /\ UNCHANGED scope

\* The with statement leaving the protected section only when it completed:
\* a failed section skips release().
exit_on_success_only(h, how) ==
    /\ scope[h] = "entered"
    /\ pc[h] = "idle"
    /\ scope' = [scope EXCEPT ![h] = how]
    /\ IF how = "normal"
       THEN CallRelease(h)
       ELSE UNCHANGED <<pc, lockVars, serverVars, resVars, histVars,
                        budgetVars, gcVars>>

\* __exit__, lines 148-149: the with statement calls it when the protected
\* section is left, completed ("normal") or by an exception ("failed"); it
\* calls self.release() and returns None, so the exception goes on.
exit(h, how) ==
    /\ scope[h] = "entered"
    /\ pc[h] = "idle"
    /\ scope' = [scope EXCEPT ![h] = how]
    /\ CallRelease(h)

\* An exception err leaves _inner_release: client.retry either runs it again
\* or release() raises it.
ReleaseFails(h, err, f) ==
    IF RetryDisposition(err) = "retry"
    THEN UNCHANGED <<pc, resVars>>
    ELSE Finish(h, "release_raised", err, f)

\* _inner_release, lines 121-124: not acquired -> False; otherwise
\* client.delete(self.path + "/" + self.node), which raises NoNodeException
\* for an absent node.
inner_release(h) ==
    /\ pc[h] = "release"
    /\ IF ~is_acquired[h]
       THEN /\ Finish(h, "False", "none", "none")
            /\ UNCHANGED znodes
       ELSE IF node[h] \in znodes
       THEN /\ znodes' = znodes \ {node[h]}
            /\ pc' = [pc EXCEPT ![h] = "rel_clear"]
            /\ UNCHANGED resVars
       ELSE /\ ReleaseFails(h, "NoNodeException", "absent")
            /\ UNCHANGED znodes
    /\ UNCHANGED <<lockVars, nextSeq, watches, histVars, budgetVars, userVars>>

\* The end of _inner_release that also resets create_tried for the next
\* acquisition.
inner_release_resets_tried(h) ==
    /\ pc[h] = "rel_clear"
    /\ is_acquired' = [is_acquired EXCEPT ![h] = FALSE]
    /\ node' = [node EXCEPT ![h] = None]
    /\ create_tried' = [create_tried EXCEPT ![h] = FALSE]
    /\ Finish(h, "True", "none", "none")
    /\ UNCHANGED <<pred, cnode, serverVars, histVars, budgetVars, userVars>>

\* The end of _inner_release without clearing is_acquired.
inner_release_keeps_flag(h) ==
    /\ pc[h] = "rel_clear"
    /\ node' = [node EXCEPT ![h] = None]
    /\ Finish(h, "True", "none", "none")
    /\ UNCHANGED <<create_tried, is_acquired, pred, cnode, serverVars, histVars,
                   budgetVars, userVars>>

\* _inner_release, lines 126-129: clear is_acquired and node, return True.
inner_release_clear(h) ==
    /\ pc[h] = "rel_clear"
    /\ is_acquired' = [is_acquired EXCEPT ![h] = FALSE]
    /\ node' = [node EXCEPT ![h] = None]
    /\ Finish(h, "True", "none", "none")
    /\ UNCHANGED <<create_tried, pred, cnode, serverVars, histVars, budgetVars,
                   userVars>>

\* ------------------------------------------------------- get_contenders
\* get_contenders() of the listing handle, line 134:
\* children = self._get_sorted_children().
get_contenders ==
    /\ gcpc = "idle"
    /\ gcListed' = get_sorted_children
    /\ gcIdx' = 0
    /\ gcOut' = <<>>
    /\ gcMissed' = {}
    /\ gcpc' = "get"
    /\ UNCHANGED <<pc, lockVars, serverVars, resVars, histVars, budgetVars, scope>>

\* One turn of get_contenders' loop without the except clause:
\* NoNodeException leaves the loop.
get_contenders_get_raises ==
    /\ gcpc = "get"
    /\ gcIdx < Len(gcListed)
    /\ IF gcListed[gcIdx + 1] \in znodes
       THEN /\ gcOut' = Append(gcOut, NodeData(gcListed[gcIdx + 1]))
            /\ UNCHANGED <<gcMissed, gcpc>>
       ELSE /\ gcMissed' = gcMissed \cup {gcListed[gcIdx + 1]}
            /\ gcpc' = "raised"
            /\ UNCHANGED gcOut
    /\ gcIdx' = gcIdx + 1
    /\ UNCHANGED <<pc, lockVars, serverVars, resVars, histVars, budgetVars, gcListed,
                   scope>>

\* get_contenders(), lines 137-142, one turn of the loop: client.get of the
\* next child; its data is appended, NoNodeException is passed over.
get_contenders_get ==
    /\ gcpc = "get"
    /\ gcIdx < Len(gcListed)
    /\ IF gcListed[gcIdx + 1] \in znodes
       THEN /\ gcOut' = Append(gcOut, NodeData(gcListed[gcIdx + 1]))
            /\ UNCHANGED gcMissed
       ELSE /\ gcMissed' = gcMissed \cup {gcListed[gcIdx + 1]}
            /\ UNCHANGED gcOut
    /\ gcIdx' = gcIdx + 1
    /\ UNCHANGED <<pc, lockVars, serverVars, resVars, histVars, budgetVars,
                   gcListed, gcpc, scope>>

\* get_contenders(), line 143: return contenders.
get_contenders_return ==
    /\ gcpc = "get"
    /\ gcIdx = Len(gcListed)
    /\ gcpc' = "idle"
    /\ gcListed' = <<>>
    /\ gcIdx' = 0
    /\ gcOut' = <<>>
    /\ gcMissed' = {}
    /\ UNCHANGED <<pc, lockVars, serverVars, resVars, histVars, budgetVars, scope>>

\* ------------------------------------------------------------- failures
\* The places of acquire() and of release() at which the next step is a
\* client call.
InAcquireCall(h) == pc[h] \in {"start", "create", "list", "exists"}
InReleaseCall(h) == pc[h] = "release" /\ is_acquired[h]
AtCreate(h) == (pc[h] = "start" /\ ~create_tried[h]) \/ pc[h] = "create"

\* One more injected failure, within the budgets.
Fault ==
    /\ faults < MaxFaults
    /\ calls + faults < MaxEvents
    /\ faults' = faults + 1
    /\ UNCHANGED <<calls, userVars>>

\* The client call _inner_acquire is about to make fails with err and has no
\* effect on the server (zkclient.py, _generic_callback: code != OK ->
\* exception).  create_tried was set before a first create was issued.
AcquireCallFails(h, err) ==
    /\ Fault
    /\ InAcquireCall(h)
    /\ AcquireFails(h, err)
    /\ create_tried' = [create_tried EXCEPT ![h] = TRUE]
    /\ UNCHANGED <<is_acquired, node, cnode, serverVars, histVars>>

\* _inner_release clearing the handle before the delete has succeeded.
ReleaseCallFails_after_clear(h, err) ==
    /\ Fault
    /\ InReleaseCall(h)
    /\ ReleaseFails(h, err, "none")
    /\ is_acquired' = [is_acquired EXCEPT ![h] = FALSE]
    /\ node' = [node EXCEPT ![h] = None]
    /\ UNCHANGED <<create_tried, pred, cnode, serverVars, histVars>>

\* The delete of _inner_release (line 124) fails with err and has no effect;
\* lines 126-129 are not reached.
ReleaseCallFails(h, err) ==
    /\ Fault
    /\ InReleaseCall(h)
    /\ ReleaseFails(h, err, "none")
    /\ UNCHANGED <<lockVars, serverVars, histVars>>

\* A transient failure: the connection is lost before the request is sent.
acquire_transient_failure(h) == AcquireCallFails(h, "ConnectionLossException")
release_transient_failure(h) == ReleaseCallFails(h, "ConnectionLossException")

\* A failure that is not retried (no authorisation, ...).
acquire_fatal_failure(h) == AcquireCallFails(h, "NoAuthException")
release_fatal_failure(h) == ReleaseCallFails(h, "NoAuthException")

\* The create is applied by the server and the connection is lost before the
\* reply: the node exists, the caller sees ConnectionLossException and never
\* learns the name.
lost_create_reply(h) ==
    /\ Fault
    /\ AtCreate(h)
    /\ znodes' = znodes \cup {Name(Uuid(h), nextSeq)}
    /\ nextSeq' = nextSeq + 1
    /\ lost' = [lost EXCEPT ![h] = Name(Uuid(h), nextSeq)]
    /\ AcquireFails(h, "ConnectionLossException")
    /\ create_tried' = [create_tried EXCEPT ![h] = TRUE]
    /\ UNCHANGED <<is_acquired, node, cnode, watches, vanished>>

\* The delete of release() is applied by the server and the connection is
\* lost before the reply.
lost_delete_reply(h) ==
    /\ Fault
    /\ InReleaseCall(h)
    /\ node[h] \in znodes
    /\ znodes' = znodes \ {node[h]}
    /\ ReleaseFails(h, "ConnectionLossException", "none")
    /\ UNCHANGED <<lockVars, nextSeq, watches, histVars>>

\* A client call inside _best_effort_cleanup fails: except Exception: pass.
\* It follows from the failure that ended the acquisition and is not counted
\* as one more.
cleanup_failure(h) ==
    /\ UNCHANGED <<budgetVars, userVars>>
    /\ pc[h] \in {"cleanup", "cleanup_delete"}
    /\ cnode' = [cnode EXCEPT ![h] = None]
    /\ AcquireRaises(h, "none")
    /\ UNCHANGED <<create_tried, is_acquired, node, pred, serverVars>>

\* The session of handle h's client expires: the server removes its
\* ephemeral nodes.
session_expiry(h) ==
    /\ Fault
    /\ HNodes(h) # {}
    /\ znodes' = znodes \ HNodes(h)
    /\ UNCHANGED <<pc, lockVars, nextSeq, watches, resVars, histVars>>

\* ---------------------------------------------------------------- Next
\* The steps inside acquire() and release(), and the watch callback.
Steps ==
    \/ \E h \in Handles : inner_acquire_begin(h)
    \/ \E h \in Handles : inner_acquire_create(h)
    \/ \E h \in Handles : inner_acquire_check(h)
    \/ \E h \in Handles : inner_acquire_exists(h)
    \/ \E h \in Handles : condition_wait(h)
    \/ \E w \in watches : watch_predecessor(w[1], w[2])
    \/ \E h \in Handles : acquire_return(h)
    \/ \E h \in Handles : inner_release(h)
    \/ \E h \in Handles : inner_release_clear(h)

Next ==
    \/ \E h \in Handles : acquire(h)
    \/ \E h \in Handles : release(h)
    \/ Steps

\* The handles used through the with statement only.
Scoped ==
    \/ \E h \in Handles : enter(h)
    \/ \E h \in Handles, how \in {"normal", "failed"} : exit(h, how)
    \/ Steps

Listing ==
    \/ get_contenders
    \/ get_contenders_get
    \/ get_contenders_return

Failure ==
    \/ \E h \in Handles : acquire_transient_failure(h)
    \/ \E h \in Handles : release_transient_failure(h)
    \/ \E h \in Handles : acquire_fatal_failure(h)
    \/ \E h \in Handles : release_fatal_failure(h)
    \/ \E h \in Handles : lost_create_reply(h)
    \/ \E h \in Handles : lost_delete_reply(h)
    \/ \E h \in Handles : cleanup_failure(h)
    \/ \E h \in Handles : session_expiry(h)
    \/ \E h \in Handles : best_effort_cleanup(h)
    \/ \E h \in Handles : best_effort_cleanup_delete(h)

NextL == Next \/ Listing
NextF == Next \/ Failure

\* Every call succeeds and no node is removed out of band.
Spec == Init /\ [][Next]_vars

\* The same, with the listing handle calling get_contenders().
SpecL == Init /\ [][NextL]_vars

\* Every call succeeds; the lock is taken and released by with statements.
SpecS == Init /\ [][Scoped]_vars

\* Client calls may fail, replies may be lost and sessions may expire (at
\* most MaxFaults times); a failed acquire() runs its cleanup.
SpecF == Init /\ [][NextF]_vars

\* ------------------------------------------------------------- fairness
\* A thread inside acquire() or release() keeps running.
Progress(h) ==
    \/ inner_acquire_begin(h)
    \/ inner_acquire_create(h)
    \/ inner_acquire_check(h)
    \/ inner_acquire_exists(h)
    \/ condition_wait(h)
    \/ acquire_return(h)
    \/ inner_release(h)
    \/ inner_release_clear(h)

\* The server delivers the watch events of handle h.
Notify(h) == \E w \in watches : w[1] = h /\ watch_predecessor(w[1], w[2])

\* A holder eventually calls release().
HolderReleases(h) == is_acquired[h] /\ release(h)

\* Spec under fair scheduling, eventual watch delivery, and holders that
\* release.
FairSpec ==
    /\ Init
    /\ [][Next]_vars
    /\ \A h \in Handles : WF_vars(Progress(h))
    /\ \A h \in Handles : WF_vars(Notify(h))
    /\ \A h \in Handles : WF_vars(HolderReleases(h))

\* =================================================================== claims
\* Handle h has recorded its node in the current attempt of acquire().
Contending(h) == pc[h] \in {"list", "exists", "locked", "wait", "got"}

\* Handle h is inside acquire().
InAcquire(h) ==
    pc[h] \in {"start", "create", "list", "exists", "locked", "wait", "got",
               "cleanup", "cleanup_delete"}

C2_FIFO ==
    \A a, b \in Handles :
        (a # b /\ Contending(a) /\ (pc[b] = "got" \/ outcome[b] = "acquired"))
            => node[b].seq < node[a].seq

C2_Witness ==
    \E a, b \in Handles :
        /\ a # b
        /\ pc[a] = "wait"
        /\ outcome[b] = "acquired" /\ pc[b] = "idle"
        /\ node[b].seq < node[a].seq

\* C3: idempotent re-create.  While the node whose create reply was lost
\* exists, it is the only child with the handle's prefix, and once the retry
\* has recorded a node it is that one.
C3_IdempotentRecreate ==
    \A h \in Handles :
        (lost[h] # None /\ lost[h] \in znodes)
            => /\ HNodes(h) = {lost[h]}
               /\ Contending(h) => node[h] = lost[h]

C3_Witness ==
    \E h \in Handles :
        lost[h] # None /\ lost[h] \in znodes /\ Contending(h) /\ node[h] = lost[h]

\* C4: a release() that finds the handle's node already absent does not
\* raise, returns True and leaves is_acquired false and the node name cleared.
C4_ReleaseAbsentSucceeds ==
    \A h \in Handles :
        flag[h] = "absent"
            => outcome[h] = "True" /\ ~is_acquired[h] /\ node[h] = None

\* C5: release idempotence.  The release() of a handle whose acquire() had
\* returned returns True; the release() that follows a release() that
\* returned True returns False, and no node of the handle is left.
C5_ReleaseTwice ==
    [][\A h \in Handles :
          /\ (outcome[h] = "acquired" /\ pc[h] \in {"release", "rel_clear"}
                 /\ pc'[h] = "idle")
                => outcome'[h] = "True"
          /\ (outcome[h] = "True" /\ pc'[h] = "idle"
                 /\ (pc[h] # "idle" \/ outcome'[h] # "True"))
                => outcome'[h] = "False" /\ HNodes(h)' = {}]_vars

C5_Witness ==
    \E h \in Handles :
        outcome[h] = "False" /\ flag[h] = "second" /\ HNodes(h) = {}

\* C6: hand-off.  Under fair scheduling, watch delivery and holders that
\* release, every acquire() that was called returns with the lock.
C6_HandOff ==
    \A h \in Handles : InAcquire(h) ~> (outcome[h] = "acquired")

C6_Witness ==
    \E a, b \in Handles :
        /\ a # b
        /\ outcome[a] = "True" /\ ~is_acquired[a]
        /\ outcome[b] = "acquired" /\ is_acquired[b]
        /\ node[b].seq > 0
        /\ znodes = {node[b]}

\* C7: acquire() ends in one of two ways: it has returned and is_acquired is
\* set, or it has raised a failure that the retry does not re-run.
C7_AcquireOutcomes ==
    \A h \in Handles :
        /\ outcome[h] = "acquired" => is_acquired[h]
        /\ outcome[h] = "acquire_raised"
              => raised[h] # "none" /\ RetryDisposition(raised[h]) = "raise"

C7_Witness ==
    \E a, b \in Handles :
        /\ outcome[a] = "acquired" /\ is_acquired[a]
        /\ outcome[b] = "acquire_raised"

\* C8: cleanup on failed acquire.  A failed acquire() raises the failure that
\* ended the retries, and when its cleanup calls succeeded no child with the
\* handle's prefix is left.
C8_CleanupOnFailure ==
    \A h \in Handles :
        outcome[h] = "acquire_raised"
            => /\ raised[h] = "NoAuthException"
               /\ flag[h] = "cleaned" => HNodes(h) = {}

C8_Witness ==
    \E h \in Handles :
        /\ outcome[h] = "acquire_raised" /\ flag[h] = "cleaned"
        /\ node[h] # None /\ node[h] \notin znodes

\* C9: a handle that found its own node missing is never shown the
\* force-retry signal, stays inside acquire(), and contends again only with
\* a node created after the one that vanished.
C9_ForceRetryRestart ==
    \A h \in Handles :
        /\ raised[h] # "ForceRetryError"
        /\ vanished[h] # None
              => /\ InAcquire(h)
                 /\ Contending(h)
                       => /\ node[h] # None
                          /\ node[h] # vanished[h]
                          /\ node[h].seq > vanished[h].seq

C9_Witness ==
    \E h \in Handles :
        /\ vanished[h] # None
        /\ Contending(h)
        /\ node[h] \in znodes
        /\ node[h].seq > vanished[h].seq

\* C10: get_contenders() raises nothing, and what it has collected is the
\* data of the children it fetched, in listed order, without the ones that
\* had vanished; every listed child that still exists is among them.
Fetched == SubSeq(gcListed, 1, gcIdx)
Present(c) == c \notin gcMissed
Kept == SelectSeq(Fetched, Present)

C10_ContendersSkipVanished ==
    /\ gcpc # "raised"
    /\ gcpc = "get"
          => /\ gcOut = [i \in 1..Len(Kept) |-> NodeData(Kept[i])]
             /\ gcMissed \cap znodes = {}
             /\ \A i \in 1..gcIdx :
                   gcListed[i] \in znodes
                       => \E j \in 1..Len(gcOut) : gcOut[j] = NodeData(gcListed[i])

C10_Witness ==
    /\ gcpc = "get"
    /\ gcIdx = Len(gcListed)
    /\ gcMissed # {}
    /\ gcOut # <<>>

\* C11: a release() of a handle that is not acquired returns False, raises
\* nothing, and changes neither a field of a handle nor the children, the
\* sequence counter or the watches of the server.
C11_ReleaseUnacquiredNoOp ==
    [][\A h \in Handles :
          (/\ pc[h] = "idle" /\ ~is_acquired[h] /\ pc'[h] = "idle"
           /\ <<outcome[h], raised[h], flag[h]>>'
                 # <<outcome[h], raised[h], flag[h]>>)
             => /\ outcome'[h] = "False"
                /\ raised'[h] = "none"
                /\ UNCHANGED <<lockVars, serverVars>>]_vars

C11_Witness ==
    \E h \in Handles :
        /\ ~create_tried[h] /\ pc[h] = "idle"
        /\ outcome[h] = "False" /\ raised[h] = "none"
        /\ znodes # {}

\* C12: scoped acquire.  Inside the protected section the handle holds the
\* lock; once the section has ended, completed or failed, release() has run
\* and returned True, the handle is not acquired and has no node under path.
C12_ScopedAcquire ==
    \A h \in Handles :
        /\ (scope[h] = "entered" /\ pc[h] = "idle")
              => outcome[h] = "acquired" /\ is_acquired[h]
        /\ (scope[h] \in {"normal", "failed"} /\ pc[h] = "idle")
              => outcome[h] = "True" /\ ~is_acquired[h] /\ HNodes(h) = {}

C12_Witness ==
    \E a, b \in Handles :
        /\ scope[a] = "failed" /\ pc[a] = "idle" /\ outcome[a] = "True"
        /\ scope[b] = "normal" /\ pc[b] = "idle" /\ outcome[b] = "True"
        /\ znodes = {}

\* C13: no missed wakeup.  A handle whose exists() found the predecessor, and
\* which is about to wait or waiting, still has its watch on a predecessor
\* that has been deleted since: the callback that wakes it is yet to run.
C13_NoMissedWakeup ==
    \A h \in Handles :
        (pc[h] \in {"locked", "wait"} /\ pred[h] \notin znodes)
            => <<h, pred[h]>> \in watches

C13_Witness ==
    \E h \in Handles :
        /\ pc[h] = "locked"
        /\ pred[h] \notin znodes
        /\ <<h, pred[h]>> \in watches

\* C14: sole acceptance condition.  _inner_acquire returns only from a
\* listing in which the handle's node is a child with the lowest sequence
\* suffix, acquire() returns only after that, and a waiter that leaves the
\* wait goes to list again.
C14_SoleAcceptance ==
    [][\A h \in Handles :
          /\ (pc'[h] = "got" /\ pc[h] # "got")
                => /\ pc[h] = "list"
                   /\ node[h] \in znodes
                   /\ \A c \in znodes : node[h].seq <= c.seq
          /\ (outcome'[h] = "acquired" /\ outcome[h] # "acquired")
                => pc[h] = "got"
          /\ (pc[h] = "wait" /\ pc'[h] # "wait") => pc'[h] = "list"]_vars

C14_Witness ==
    \E h \in Handles :
        /\ pc[h] = "got"
        /\ node[h].seq > 0
        /\ \A w \in watches : w[1] # h

\* C15: predecessor already gone.  A handle whose exists() finds the
\* predecessor absent neither takes the way to the wait nor sets a watch it
\* would wait for: unless the call fails, its next step is to list again.
C15_NoWaitForAbsent ==
    [][\A h \in Handles :
          (pc[h] = "exists" /\ pred[h] \notin znodes /\ pc'[h] # "exists")
             => /\ pc'[h] \notin {"locked", "wait"}
                /\ faults' = faults => pc'[h] = "list"
                /\ <<h, pred[h]>> \in watches' => <<h, pred[h]>> \in watches]_vars

C15_Witness ==
    \E h \in Handles :
        /\ pc[h] = "exists"
        /\ pred[h] # None
        /\ pred[h] \notin znodes
        /\ node[h] \in znodes

\* C16: create_tried is monotonic: no step of any operation, failing or not,
\* takes a handle's create_tried from true to false.
C16_CreateTriedMonotonic ==
    [][\A h \in Handles : create_tried[h] => create_tried'[h]]_vars

C16_Witness ==
    \E a, b \in Handles :
        /\ create_tried[a] /\ pc[a] = "idle" /\ outcome[a] = "True"
        /\ create_tried[b] /\ pc[b] = "idle" /\ outcome[b] = "acquire_raised"

\* C17, as stated: the node name a handle has recorded during an acquire()
\* call (here the one it then found missing from the children) is the name
\* it contends with for the rest of that call, force-retries included.
C17_NodeStable ==
    \A h \in Handles :
        (vanished[h] # None /\ Contending(h)) => node[h] = vanished[h]

\* C17, amended: during an acquire() call the recorded node name changes
\* only when the node it named no longer exists under path.
C17_NodeStableWhileExists ==
    [][\A h \in Handles :
          (InAcquire(h) /\ node[h] # None /\ node'[h] # node[h])
             => node[h] \notin znodes]_vars

C17_Witness ==
    \E h \in Handles :
        /\ calls = 1 /\ faults > 0
        /\ pc[h] = "start"
        /\ node[h] \in znodes

\* C18: _get_sorted_children returns every child of path once, in the order
\* of the sequence suffixes, whatever the uuid prefixes are.
C18_SortedBySuffix ==
    LET children == get_sorted_children
    IN  /\ Len(children) = Cardinality(znodes)
        /\ {children[i] : i \in 1..Len(children)} = znodes
        /\ \A i, j \in 1..Len(children) :
              i < j => children[i].seq < children[j].seq

C18_Witness ==
    LET children == get_sorted_children
    IN  \E i, j \in 1..Len(children) :
           /\ i < j
           /\ children[i].seq < children[j].seq
           /\ children[i].uuid > children[j].uuid

\* C19: whatever fails (transient failures and retries, lost create replies,
\* session expiry, failed acquisitions and their cleanup), the children of
\* path hold at most one node with a given handle's prefix.
C19_OneNodePerPrefix ==
    \A h \in Handles : Cardinality(HNodes(h)) <= 1

C19_Witness ==
    \E h \in Handles :
        /\ pc[h] = "start"
        /\ create_tried[h]
        /\ lost[h] \in znodes
        /\ node[h] \notin znodes
        /\ Cardinality(HNodes(h)) = 1

\* Node n has the lowest sequence suffix among the children of path.
Lowest(n) == \A c \in znodes : n.seq <= c.seq

\* C20, as stated: whenever a handle has is_acquired set and the node it has
\* recorded exists under path, that node is the lowest child.
C20_HolderNodeLowest ==
    \A h \in Handles :
        (is_acquired[h] /\ node[h] \in znodes) => Lowest(node[h])

\* C20, amended: whenever the last call a handle has made is an acquire()
\* that returned (a release() of it may be under way) and the node it has
\* recorded exists under path, that node is the lowest child.
C20_AcquiredNodeLowest ==
    \A h \in Handles :
        (outcome[h] = "acquired" /\ node[h] \in znodes) => Lowest(node[h])

C20_Witness ==
    \E a, b \in Handles :
        /\ a # b
        /\ outcome[a] = "acquired" /\ is_acquired[a]
        /\ node[a] \in znodes /\ node[b] \in znodes
        /\ node[a].seq < node[b].seq
        /\ faults > 0

\* C21: acquire() called again by a handle that holds the lock, with every
\* call succeeding: it never creates, checks the predecessor or waits, the
\* only child with its prefix is the node it has recorded, which is the
\* lowest child when the handle lists, and is_acquired stays set.
C21_ReacquireWhileHolding ==
    \A h \in Handles :
        (is_acquired[h] /\ InAcquire(h))
            => /\ pc[h] \in {"start", "list", "got"}
               /\ HNodes(h) = {node[h]}
               /\ Lowest(node[h])

C21_Witness ==
    \E h \in Handles :
        /\ is_acquired[h]
        /\ pc[h] = "got"
        /\ HNodes(h) = {node[h]}
        /\ Cardinality(znodes) > 1

\* C22: a release() that raises (the error of its delete is one the retry
\* executor propagates) leaves the handle as it was: is_acquired set, the
\* recorded node name kept, create_tried untouched.
C22_FailedReleaseKeepsState ==
    [][\A h \in Handles :
          (pc[h] = "release" /\ pc'[h] = "idle"
             /\ outcome'[h] = "release_raised")
             => /\ RetryDisposition(raised'[h]) = "raise"
                /\ is_acquired[h] /\ is_acquired'[h]
                /\ node[h] # None /\ node'[h] = node[h]
                /\ create_tried'[h] = create_tried[h]]_vars

\* A later release() is about to issue the same delete again.
C22_Witness ==
    \E h \in Handles :
        /\ outcome[h] = "release_raised"
        /\ raised[h] = "NoAuthException"
        /\ pc[h] = "release"
        /\ is_acquired[h]
        /\ node[h] \in znodes

====
